---- MODULE Spec2Model ----
(***************************************************************************)
(* Model of the list handlers of the ethscriptions API:                    *)
(*   eth2 : GET /api/ethscriptions  (src/unnamed/part_002)                  *)
(*   eth1 : GET /api/ethscriptions  (src/unnamed/part_001, the variant      *)
(*          that counts with a separate query)                              *)
(*   col  : GET /api/collections    (src/src/app/api/collections/route.ts)  *)
(* A handler is an async function; one action models the code between two  *)
(* awaits.  Text is a sequence of one-character strings, an optional value  *)
(* is a set with at most one element.                                       *)
(***************************************************************************)
EXTENDS Integers, Sequences, FiniteSets, TLC

VARIABLES
  db,        \* the store: [ethscriptions |-> rows, collections |-> rows]
  pc,        \* position of the handler: idle, counting, querying, done
  handler,   \* which handler serves the request: eth1, eth2, col
  req,       \* searchQuery / searchParams of the request being served
  query,     \* the query builder object (where, orderBy, limit, offset)
  preTotal,  \* eth1: total read by the separate count query
  trips,     \* round trips to the store made for the current request
  resp,      \* the response of the handler
  visited,   \* ids of the rows delivered since the walk over pages began
  hops,      \* number of page_key follow-ups of the current walk
  fromFirst, \* the current walk began at the first page
  params,    \* segments of the route of a single-resource request
  body,      \* body of a POST request
  item,      \* a record given to the projection
  patterns,  \* the include and exclude lists given to the projection
  projected, \* the record the projection returns
  parked     \* the invocation that waits at an await while another one runs

\* the variables the list handlers do not touch
others == <<params, body, item, patterns, projected, parked>>

vars == <<db, pc, handler, req, query, preTotal, trips, resp, visited, hops, fromFirst,
          others>>

----------------------------------------------------------------------------
(* Bounds of the model *)

MaxPage == 3
MaxPageSize == 2
MaxHops == 6

----------------------------------------------------------------------------
(* Optional values and text *)

None == {}
Some(v) == {v}
The(s) == CHOOSE v \in s : TRUE

Max(a, b) == IF a >= b THEN a ELSE b
Min(a, b) == IF a <= b THEN a ELSE b

\* Characters in ASCII order; Code(c) is the position, used to compare text.
Alphabet == <<"%", "*", "0", "1", "2", "3", "4", "5", "6", "7", "8", "9",
              "A", "B", "_", "a", "b", "c", "d", "e", "f", "i", "n", "u", "x">>
Code(c) == CHOOSE i \in 1..Len(Alphabet) : Alphabet[i] = c
Digits == <<"0", "1", "2", "3", "4", "5", "6", "7", "8", "9">>
IsDigit(c) == \E i \in 1..10 : Digits[i] = c
DigitVal(c) == (CHOOSE i \in 1..10 : Digits[i] = c) - 1

\* value.includes('*')
HasStar(s) == \E i \in 1..Len(s) : s[i] = "*"
\* value.replace(/\*/g, '%'), value.replaceAll('*', '%')
StarToPercent(s) == [i \in 1..Len(s) |-> IF s[i] = "*" THEN "%" ELSE s[i]]
\* String.prototype.toLowerCase over the alphabet
ToLowerCase(s) ==
  [i \in 1..Len(s) |-> IF s[i] = "A" THEN "a" ELSE IF s[i] = "B" THEN "b" ELSE s[i]]

\* `${n}` of a non-negative integer
RECURSIVE NumToStr(_)
NumToStr(n) == IF n < 10 THEN <<Digits[n + 1]>>
               ELSE NumToStr(n \div 10) \o <<Digits[(n % 10) + 1]>>
\* `${undefined}`
UndefinedStr == <<"u", "n", "d", "e", "f", "i", "n", "e", "d">>

\* Number(s) of a piece of the page_key: digits give their value, the empty
\* string gives 0, anything else NaN.  A number is [nan |-> FALSE, v |-> n].
NaN == [nan |-> TRUE, v |-> 0]
Num(n) == [nan |-> FALSE, v |-> n]
RECURSIVE DigitsValue(_)
DigitsValue(s) == IF s = <<>> THEN 0
                  ELSE 10 * DigitsValue(SubSeq(s, 1, Len(s) - 1)) + DigitVal(s[Len(s)])
AllDigits(s) == \A i \in 1..Len(s) : IsDigit(s[i])
Number(s) == IF AllDigits(s) THEN Num(DigitsValue(s)) ELSE NaN

\* s.split('_'): the pieces between the underscores
RECURSIVE Split(_)
Split(s) ==
  IF \E i \in 1..Len(s) : s[i] = "_"
  THEN LET i == CHOOSE k \in 1..Len(s) : s[k] = "_" /\ \A j \in 1..(k - 1) : s[j] # "_"
       IN <<SubSeq(s, 1, i - 1)>> \o Split(SubSeq(s, i + 1, Len(s)))
  ELSE <<s>>

----------------------------------------------------------------------------
(* The store: SQL values, comparison, LIKE.  A value is tagged with its     *)
(* storage class: I(n) integer, T(s) text, NULL.                            *)

I(n) == [t |-> "int", n |-> n, s |-> <<>>]
T(s) == [t |-> "text", n |-> 0, s |-> s]
NULL == [t |-> "null", n |-> 0, s |-> <<>>]
\* a bound parameter that is not a finite number (NaN, undefined)
BAD == [t |-> "bad", n |-> 0, s |-> <<>>]

\* Column affinity of the columns the model carries (schema of the tables).
IntCols == {"number", "block_number", "block_timestamp", "transaction_index",
            "updated_at", "supply", "created_at", "verified",
            "is_esip0", "is_esip3", "is_esip4", "is_esip6", "is_esip8"}
Affinity(col) == IF col \in IntCols THEN "int" ELSE "text"

\* memcmp order of two texts: -1, 0, 1
RECURSIVE TextCmp(_, _)
TextCmp(a, b) ==
  IF a = <<>> THEN (IF b = <<>> THEN 0 ELSE -1)
  ELSE IF b = <<>> THEN 1
  ELSE IF Code(a[1]) < Code(b[1]) THEN -1
  ELSE IF Code(a[1]) > Code(b[1]) THEN 1
  ELSE TextCmp(Tail(a), Tail(b))

IntCmp(a, b) == IF a < b THEN -1 ELSE IF a > b THEN 1 ELSE 0

\* The parameter after the column's affinity is applied to it.
Coerce(col, p) ==
  IF Affinity(col) = "int" /\ p.t = "text" /\ p.s # <<>> /\ AllDigits(p.s)
    THEN I(DigitsValue(p.s))
  ELSE IF Affinity(col) = "text" /\ p.t = "int" THEN T(NumToStr(p.n))
  ELSE p

\* Order of a stored value against a parameter: -1, 0, 1, or 2 when either
\* side is NULL (the comparison is then NULL, which selects no row).
SqlCmp(col, v, param) ==
  LET p == Coerce(col, param) IN
  IF v.t = "null" \/ p.t \in {"null", "bad"} THEN 2
  ELSE IF v.t = "int" /\ p.t = "int" THEN IntCmp(v.n, p.n)
  ELSE IF v.t = "int" THEN -1
  ELSE IF p.t = "int" THEN 1
  ELSE TextCmp(v.s, p.s)

AsText(v) == IF v.t = "int" THEN NumToStr(v.n) ELSE v.s

\* SQL LIKE: '%' matches any run of characters, '_' any one character,
\* letters match without regard to case.
RECURSIVE LikeMatch(_, _)
LikeMatch(s, pat) ==
  IF pat = <<>> THEN s = <<>>
  ELSE IF pat[1] = "%"
    THEN \E k \in 0..Len(s) : LikeMatch(SubSeq(s, k + 1, Len(s)), Tail(pat))
  ELSE IF s = <<>> THEN FALSE
  ELSE IF pat[1] = "_" THEN LikeMatch(Tail(s), Tail(pat))
  ELSE ToLowerCase(<<s[1]>>) = ToLowerCase(<<pat[1]>>) /\ LikeMatch(Tail(s), Tail(pat))

\* A predicate clause of the query: drizzle's eq, gt, gte, lt, lte, like,
\* the raw IS NULL / IS NOT NULL, and the raw row-value comparison of the
\* cursor, (block_number, transaction_index) > (val, val2).
Clause(k, col, val) == [k |-> k, col |-> col, val |-> val, val2 |-> NULL]
TupleClause(k, a, b) == [k |-> k, col |-> "block_number", val |-> a, val2 |-> b]
\* or(eq(id, a), eq(number, a)) of the single-resource lookup
OrClause(a) == [k |-> "or_eq", col |-> "id", val |-> a, val2 |-> a]

CmpOps == {"eq", "gt", "gte", "lt", "lte"}

Holds(c, row) ==
  IF c.k \in CmpOps THEN
    LET r == SqlCmp(c.col, row[c.col], c.val) IN
      CASE c.k = "eq" -> r = 0
        [] c.k = "gt" -> r = 1
        [] c.k = "gte" -> r \in {0, 1}
        [] c.k = "lt" -> r = -1
        [] c.k = "lte" -> r \in {-1, 0}
  ELSE IF c.k = "like" THEN
    row[c.col].t # "null" /\ c.val.t \in {"int", "text"}
      /\ LikeMatch(AsText(row[c.col]), AsText(c.val))
  ELSE IF c.k = "isnull" THEN row[c.col].t = "null"
  ELSE IF c.k = "notnull" THEN row[c.col].t # "null"
  ELSE IF c.k \in {"tuple_gt", "tuple_lt"} THEN
    LET a == SqlCmp("block_number", row.block_number, c.val)
        b == SqlCmp("transaction_index", row.transaction_index, c.val2)
    IN IF c.k = "tuple_gt" THEN a = 1 \/ (a = 0 /\ b = 1)
                           ELSE a = -1 \/ (a = 0 /\ b = -1)
  ELSE IF c.k = "or_eq" THEN
    SqlCmp("id", row.id, c.val) = 0 \/ SqlCmp("number", row.number, c.val2) = 0
  ELSE FALSE

\* and(...clauses) as the WHERE of the query
HoldsAll(cs, row) == \A i \in 1..Len(cs) : Holds(cs[i], row)

----------------------------------------------------------------------------
(* Tables.  The rows are kept in insertion (rowid) order.                    *)

EthRow(id, number, bn, ti, sha, coll, esip6) ==
  [id |-> T(id), number |-> I(number), block_number |-> I(bn),
   transaction_index |-> I(ti), content_sha |-> T(sha), collection_id |-> coll,
   is_esip6 |-> I(esip6)]

ColRow(id, created, supply, name, slug) ==
  [id |-> T(id), created_at |-> I(created), supply |-> I(supply),
   name |-> T(name), slug |-> T(slug), verified |-> I(0)]

\* (block_number, transaction_index) identifies the transaction of an
\* ethscription, so no two rows share it; created_at may repeat.
EthFixture ==
  << EthRow(<<"x", "1">>, 1, 2, 0, <<"b", "a">>, NULL, 0),
     EthRow(<<"x", "2">>, 2, 1, 1, <<"a", "b">>, T(<<"c">>), 1),
     EthRow(<<"x", "3">>, 3, 1, 0, <<"a", "c">>, NULL, 0),
     EthRow(<<"x", "4">>, 4, 3, 1, <<"a", "b">>, T(<<"c">>), 0),
     EthRow(<<"x", "5">>, 5, 2, 2, <<"a", "a">>, NULL, 1) >>

ColFixture ==
  << ColRow(<<"c">>, 2, 5, <<"a", "b">>, <<"a", "b">>),
     ColRow(<<"d">>, 1, 3, <<"a", "a">>, <<"a", "a">>),
     ColRow(<<"e">>, 3, 5, <<"b", "a">>, <<"b", "a">>),
     ColRow(<<"f">>, 4, 1, <<"a", "c">>, <<"a", "c">>) >>

\* transactions: one for every ethscription (ethscriptions.id references
\* transactions.transaction_hash)
TxFixture ==
  [i \in 1..Len(EthFixture) |->
     [transaction_hash |-> EthFixture[i].id, block_number |-> EthFixture[i].block_number]]

\* transfers and votes reference the ethscription; an ethscription may have
\* none, one or several of each
TransferFixture ==
  << [index |-> I(1), ethscription_id |-> T(<<"x", "1">>)],
     [index |-> I(2), ethscription_id |-> T(<<"x", "1">>)],
     [index |-> I(3), ethscription_id |-> T(<<"x", "2">>)] >>

VoteFixture ==
  << [id |-> I(1), ethscription_id |-> T(<<"x", "3">>), up |-> I(1)],
     [id |-> I(2), ethscription_id |-> T(<<"x", "3">>), up |-> I(0)],
     [id |-> I(3), ethscription_id |-> T(<<"x", "1">>), up |-> I(1)] >>

\* Generated tables of n rows, for the arithmetic of large totals.
GenEth(n) ==
  [i \in 1..n |-> EthRow(<<"x">> \o NumToStr(i), i, (n - i) \div 2, (n - i) % 2,
                         <<"a", "b">>, NULL, 0)]
GenCol(n) ==
  [i \in 1..n |-> ColRow(<<"c">> \o NumToStr(i), n - i, i, <<"a">>, <<"a">>)]

----------------------------------------------------------------------------
(* Execution of a query by the store                                        *)

\* a store whose order among rows of equal sort key changes once another
\* invocation has been answered
RECURSIVE RowLEUnstable(_, _, _)
RowLEUnstable(ob, a, b) ==
  IF ob = <<>> THEN parked.pc # "done"
  ELSE LET c == IntCmp(a[ob[1].col].n, b[ob[1].col].n)
           d == IF ob[1].dir = "asc" THEN c ELSE 0 - c
       IN IF d < 0 THEN TRUE ELSE IF d > 0 THEN FALSE ELSE RowLEUnstable(Tail(ob), a, b)

\* ORDER BY: row a sorts before (or with) row b under the orderBy list
RECURSIVE RowLE(_, _, _)
RowLE(ob, a, b) ==
  IF ob = <<>> THEN TRUE
  ELSE LET c == IntCmp(a[ob[1].col].n, b[ob[1].col].n)
           d == IF ob[1].dir = "asc" THEN c ELSE 0 - c
       IN IF d < 0 THEN TRUE ELSE IF d > 0 THEN FALSE ELSE RowLE(Tail(ob), a, b)

RECURSIVE Merge(_, _, _)
Merge(ob, a, b) ==
  IF a = <<>> THEN b
  ELSE IF b = <<>> THEN a
  ELSE IF RowLE(ob, a[1], b[1]) THEN <<a[1]>> \o Merge(ob, Tail(a), b)
  ELSE <<b[1]>> \o Merge(ob, a, Tail(b))

\* rows of equal sort key stay in the order of the table: the engine returns
\* the same order each time the same statement runs on an unchanged store
RECURSIVE OrderBy(_, _)
OrderBy(ob, rows) ==
  IF Len(rows) <= 1 THEN rows
  ELSE LET h == Len(rows) \div 2
       IN Merge(ob, OrderBy(ob, SubSeq(rows, 1, h)),
                    OrderBy(ob, SubSeq(rows, h + 1, Len(rows))))

\* WHERE: the rows of the table the query's predicate selects
Matching(where, rows) ==
  LET Keep(r) == where = None \/ HoldsAll(The(where), r)
  IN SelectSeq(rows, Keep)

\* leftJoin(table, eq(ethscriptions[left], table[right])) of each relation
JoinOn(rel) ==
  CASE rel = "collection" -> [table |-> "collections", left |-> "collection_id", right |-> "id"]
    [] rel = "metadata" ->
         [table |-> "transactions", left |-> "id", right |-> "transaction_hash"]
    [] rel = "transfers" -> [table |-> "transfers", left |-> "id", right |-> "ethscription_id"]
    [] rel = "votes" -> [table |-> "votes", left |-> "id", right |-> "ethscription_id"]

\* LEFT JOIN: each row once for every row of the table that matches it, each
\* time with that row as its sub-object, and once with null when none does
RECURSIVE LeftJoin(_, _, _)
LeftJoin(rel, rows, database) ==
  IF rows = <<>> THEN <<>>
  ELSE LET on == JoinOn(rel)
           r == rows[1]
           Match(m) == r[on.left] # NULL /\ m[on.right] = r[on.left]
           matches == SelectSeq(database[on.table], Match)
       IN (IF matches = <<>> THEN <<r @@ (rel :> NULL)>>
           ELSE [i \in 1..Len(matches) |-> r @@ (rel :> matches[i])])
          \o LeftJoin(rel, Tail(rows), database)

\* the joins of a query, one after the other
RECURSIVE Joined(_, _, _)
Joined(joins, rows, database) ==
  IF joins = <<>> THEN rows
  ELSE Joined(Tail(joins), LeftJoin(joins[1], rows, database), database)

\* The rows a query returns: joins, WHERE, ORDER BY, COUNT(*) OVER() over the
\* selected rows, then OFFSET and LIMIT.  Each returned row carries the count.
Window(q, sel) ==
  LET off == IF q.offset = None THEN 0 ELSE The(q.offset)
      page == IF q.limit = None THEN SubSeq(sel, off + 1, Len(sel))
              ELSE SubSeq(sel, off + 1, Min(off + The(q.limit), Len(sel)))
  IN [i \in 1..Len(page) |-> [row |-> page[i], total |-> Len(sel)]]

\* the steps of the store, each on the value of the step before it
Execute(q, database) ==
  The({ Window(q, sel) :
           sel \in { OrderBy(q.orderBy, rows) :
             rows \in { Joined(q.joins, matched, database) :
               matched \in { Matching(q.where, database[q.table]) } } } })

\* A parameter the client library refuses to bind (NaN, undefined)
HasBadParam(q) ==
  q.where # None /\ \E i \in 1..Len(The(q.where)) :
     The(q.where)[i].val.t = "bad" \/ The(q.where)[i].val2.t = "bad"

----------------------------------------------------------------------------
(* The handlers: from the validated request to the query                    *)

\* A top-level filter of the request, searchQuery[field]: colon says whether
\* the raw parameter has the form op:value.
Filter(colon, op, value, min, max) ==
  [colon |-> colon, op |-> op, value |-> value, min |-> min, max |-> max]
Plain(value) == Filter(FALSE, "eq", value, NULL, NULL)
WithOp(op, n) == Filter(TRUE, op, I(n), NULL, NULL)
Range(min, max) == Filter(TRUE, "range", NULL, I(min), I(max))

EthNumberFields == <<"number", "block_number", "block_timestamp", "transaction_index",
                     "updated_at">>
EthTextFields == <<"id", "media_type", "media_subtype", "content_type", "content_sha",
                   "creator", "initial_owner", "current_owner", "previous_owner">>
EthBoolFields == <<"is_esip0", "is_esip3", "is_esip4", "is_esip6", "is_esip8">>
ColTextFields == <<"id", "slug", "name", "description", "logo", "banner">>

\* a switch whose range excludes its bounds
NumberClausesOpen(field, val) ==
  LET op == IF val.colon THEN val.op ELSE "eq" IN
  IF op \in {"gt", "lt", "gte", "lte"} THEN <<Clause(op, field, val.value)>>
  ELSE IF op = "range" THEN <<Clause("gt", field, val.min), Clause("lt", field, val.max)>>
  ELSE <<Clause("eq", field, val.value)>>

\* the switch over the operator of a number filter
NumberClauses(field, val) ==
  LET op == IF val.colon THEN val.op ELSE "eq" IN
  IF op \in {"gt", "lt", "gte", "lte"} THEN <<Clause(op, field, val.value)>>
  ELSE IF op = "range" THEN <<Clause("gte", field, val.min), Clause("lte", field, val.max)>>
  ELSE <<Clause("eq", field, val.value)>>

\* a text filter: like when the value has a '*', eq otherwise
TextClause(field, value) ==
  IF HasStar(value) THEN Clause("like", field, T(StarToPercent(value)))
  ELSE Clause("eq", field, T(value))

\* the collections handler lower-cases the slug
ColTextClause(field, value) ==
  IF field = "slug"
  THEN (IF HasStar(ToLowerCase(value))
        THEN Clause("like", field, T(ToLowerCase(StarToPercent(value))))
        ELSE Clause("eq", field, T(ToLowerCase(StarToPercent(value)))))
  ELSE TextClause(field, value)

\* a collection_id filter that takes 'null' for a literal
CollectionIdClausesTwoState(filters) ==
  IF "collection_id" \in DOMAIN filters /\ filters["collection_id"].value.s # <<>>
  THEN LET value == filters["collection_id"].value.s IN
       IF value = <<"t", "r", "u", "e">> THEN <<Clause("notnull", "collection_id", NULL)>>
       ELSE IF value \in {<<"f", "a", "l", "s", "e">>}
         THEN <<Clause("isnull", "collection_id", NULL)>>
       ELSE <<TextClause("collection_id", value)>>
  ELSE <<>>

\* the tri-state collection_id filter
CollectionIdClauses(filters) ==
  IF "collection_id" \in DOMAIN filters /\ filters["collection_id"].value.s # <<>>
  THEN LET value == filters["collection_id"].value.s IN
       IF value = <<"t", "r", "u", "e">> THEN <<Clause("notnull", "collection_id", NULL)>>
       ELSE IF value \in {<<"f", "a", "l", "s", "e">>, <<"n", "u", "l", "l">>}
         THEN <<Clause("isnull", "collection_id", NULL)>>
       ELSE <<TextClause("collection_id", value)>>
  ELSE <<>>

RECURSIVE NumberFilters(_, _)
NumberFilters(fields, filters) ==
  IF fields = <<>> THEN <<>>
  ELSE (IF fields[1] \in DOMAIN filters THEN NumberClauses(fields[1], filters[fields[1]])
        ELSE <<>>) \o NumberFilters(Tail(fields), filters)

RECURSIVE TextFilters(_, _)
TextFilters(fields, filters) ==
  IF fields = <<>> THEN <<>>
  ELSE (IF fields[1] \in DOMAIN filters
        THEN <<TextClause(fields[1], filters[fields[1]].value.s)>>
        ELSE <<>>) \o TextFilters(Tail(fields), filters)

RECURSIVE ColTextFilters(_, _)
ColTextFilters(fields, filters) ==
  IF fields = <<>> THEN <<>>
  ELSE (IF fields[1] \in DOMAIN filters
        THEN <<ColTextClause(fields[1], filters[fields[1]].value.s)>>
        ELSE <<>>) \o ColTextFilters(Tail(fields), filters)

RECURSIVE BoolFilters(_, _)
BoolFilters(fields, filters) ==
  IF fields = <<>> THEN <<>>
  ELSE (IF fields[1] \in DOMAIN filters
        THEN <<Clause("eq", fields[1], filters[fields[1]].value)>>
        ELSE <<>>) \o BoolFilters(Tail(fields), filters)

\* the conditions array of the ethscriptions handler before the cursor
EthConditions(sq) ==
  NumberFilters(EthNumberFields, sq.filters) \o CollectionIdClauses(sq.filters)
    \o TextFilters(EthTextFields, sq.filters) \o BoolFilters(EthBoolFields, sq.filters)

\* the clause of one where[key][op]=value entry: orm[op](table[key], val)
WhereClause(e) ==
  Clause(e.op, e.key, T(IF HasStar(e.value) THEN StarToPercent(e.value) ELSE e.value))

\* the conds of the where object, in the order of its entries
WhereConds(w) == [i \in 1..Len(w) |-> WhereClause(w[i])]

\* a test for the presence of page_key that takes the empty string too
IsCursorAny(sq) == sq.page_key # None

\* searchQuery.page_key ? searchQuery.page_key.length > 0 : false
IsCursor(sq) == sq.page_key # None /\ Len(The(sq.page_key)) > 0

\* const offset = searchQuery.page_key ? 0 : (page - 1) * page_size
Offset(sq) == IF IsCursor(sq) THEN 0 ELSE (sq.page - 1) * sq.page_size

\* a JavaScript number (or undefined) as a bound parameter
Param(x) == IF x.nan THEN BAD ELSE I(x.v)

\* the keyset predicate of the decoded page_key
CursorClause(sq) ==
  LET parts == Split(The(sq.page_key))
      blockNumber == Param(Number(parts[1]))
      txIndex == IF Len(parts) >= 2 THEN Param(Number(parts[2])) ELSE BAD
  IN TupleClause(IF sq.order = "asc" THEN "tuple_gt" ELSE "tuple_lt", blockNumber, txIndex)

\* and(...conds): undefined when there is no clause
And(conds) == IF conds = <<>> THEN None ELSE Some(conds)

\* the WHERE the ethscriptions handler leaves on the query: every call of
\* query.where replaces the WHERE of the call before it
EthWhere(sq) ==
  LET conditions == EthConditions(sq)
      first == IF Len(conditions) > 0 THEN And(conditions) ELSE None
      withCursor == IF IsCursor(sq) THEN conditions \o <<CursorClause(sq)>> ELSE conditions
  IN IF sq.where = None /\ Len(withCursor) > 0 THEN And(withCursor)
     ELSE IF sq.where # None THEN And(WhereConds(The(sq.where)))
     ELSE first

\* the relations a request can expand, in the order the handler joins them
Relations == <<"collection", "metadata", "transfers", "votes">>

\* the joins the handler adds: one for each relation the expand list includes
ExpandJoins(expand) ==
  LET Asked(r) == r \in expand IN SelectSeq(Relations, Asked)

\* the query of the ethscriptions handler when it is awaited
EthQuery(sq) ==
  [table |-> "ethscriptions",
   joins |-> ExpandJoins(sq.expand),
   where |-> EthWhere(sq),
   orderBy |-> << [col |-> "block_number", dir |-> sq.order],
                  [col |-> "transaction_index", dir |-> sq.order] >>,
   limit |-> Some(sq.page_size),
   offset |-> IF IsCursor(sq) THEN None ELSE Some(Offset(sq))]

\* the conditions of the collections handler before the cursor
ColFilters(sq) ==
  ColTextFilters(ColTextFields, sq.filters)
   \o (IF "supply" \in DOMAIN sq.filters THEN NumberClauses("supply", sq.filters["supply"])
       ELSE <<>>)
   \o (IF "verified" \in DOMAIN sq.filters /\ sq.filters["verified"].value.n # 0
       THEN <<Clause("eq", "verified", sq.filters["verified"].value)>> ELSE <<>>)

\* the conditions array of the collections handler
ColConditions(sq) ==
  ColFilters(sq)
   \o (IF IsCursor(sq)
       THEN <<Clause(IF sq.order = "asc" THEN "gt" ELSE "lt", "created_at",
                     T(The(sq.page_key)))>>
       ELSE <<>>)

\* the WHERE of the collections handler: with a where object, one call of
\* query.where per entry, each replacing the one before
ColWhere(sq) ==
  LET conditions == ColConditions(sq) IN
  IF sq.where = None /\ Len(conditions) > 0 THEN And(conditions)
  ELSE IF sq.where # None /\ Len(The(sq.where)) > 0
    THEN Some(<<WhereClause(The(sq.where)[Len(The(sq.where))])>>)
  ELSE None

ColQuery(sq) ==
  [table |-> "collections",
   joins |-> <<>>,
   where |-> ColWhere(sq),
   orderBy |-> << [col |-> "created_at", dir |-> sq.order] >>,
   limit |-> Some(sq.page_size),
   offset |-> IF IsCursor(sq) THEN None ELSE Some(Offset(sq))]

BuildQuery(h, sq) == IF h = "col" THEN ColQuery(sq) ELSE EthQuery(sq)

\* db.select({ total: COUNT(*) OVER() }).from(ethscriptions) of eth1
CountQuery ==
  [table |-> "ethscriptions", joins |-> <<>>, where |-> None, orderBy |-> <<>>,
   limit |-> None, offset |-> None]

----------------------------------------------------------------------------
(* The handlers: from the rows to the response                              *)

\* const has_next = total > offset + page_size ? page + 1 : null
HasNext(sq, total) ==
  IF total > Offset(sq) + sq.page_size THEN Some(sq.page + 1) ELSE None

\* Math.floor in the place of Math.ceil
PagesFloor(total, pageSize) == total \div pageSize

\* Math.ceil(total / page_size)
Pages(total, pageSize) == (total + pageSize - 1) \div pageSize

\* `${last?.block_number}_${last?.transaction_index}` of the ethscriptions
\* handlers, last?.created_at of the collections handler; nextCursor || null
NextCursor(h, sq, total, results) ==
  IF HasNext(sq, total) = None THEN None
  ELSE IF h = "col"
    THEN (IF results = <<>> \/ results[Len(results)].row.created_at.n = 0 THEN None
          ELSE Some(results[Len(results)].row.created_at))
  ELSE IF results = <<>> THEN Some(T(UndefinedStr \o <<"_">> \o UndefinedStr))
  ELSE Some(T(NumToStr(results[Len(results)].row.block_number.n) \o <<"_">>
                \o NumToStr(results[Len(results)].row.transaction_index.n)))

\* results[0]?.total ?? 0; eth1 uses the total of its count query
TotalOf(h, counted, results) ==
  IF h = "eth1" THEN counted
  ELSE IF results = <<>> THEN 0 ELSE results[1].total

\* the object the handler returns
Response(h, sq, total, results) ==
  LET left == total - sq.page_size
      cursor == IsCursor(sq)
  IN [status |-> 200,
      message |-> "",
      issues |-> <<>>,
      mode |-> IF cursor THEN "cursor" ELSE "offset",
      total |-> total,
      items_left |-> IF cursor /\ h # "eth1" THEN Some(Max(left, 0)) ELSE None,
      page_size |-> sq.page_size,
      pages |-> IF cursor THEN None ELSE Some(Pages(total, sq.page_size)),
      page |-> IF cursor THEN None ELSE Some(sq.page),
      prev |-> IF cursor \/ sq.page <= 1 THEN None ELSE Some(sq.page - 1),
      next |-> IF cursor THEN None ELSE HasNext(sq, total),
      page_key |-> NextCursor(h, sq, total, results),
      has_more |-> IF cursor THEN left > 0 ELSE HasNext(sq, total) # None,
      data |-> [i \in 1..Len(results) |-> results[i].row]]

\* what the caller gets when the handler throws
Failure ==
  [status |-> 500, message |-> "", issues |-> <<>>, mode |-> "error", total |-> 0, items_left |-> None, page_size |-> 0,
   pages |-> None, page |-> None, prev |-> None, next |-> None, page_key |-> None,
   has_more |-> FALSE, data |-> <<>>]

NoResponse == [Failure EXCEPT !.status = 0, !.mode = "none"]
NoQuery == [CountQuery EXCEPT !.table = "none"]

\* one issue of an error response
Issue(code, path) == [code |-> code, path |-> path]

----------------------------------------------------------------------------
(* Requests                                                                 *)

NoFilter == [x \in {} |-> x]
Txt(s) == Plain(T(s))
WhereEntry(key, op, value) == [key |-> key, op |-> op, value |-> value]

Request(page, pageSize, pageKey, order, filters, where) ==
  [page |-> page, page_size |-> pageSize, page_key |-> pageKey, order |-> order,
   filters |-> filters, where |-> where, expand |-> {}]

\* the request with ?expand= naming the relations of the set expand
Expanding(sq, expand) == [sq EXCEPT !.expand = expand]

NoRequest == Request(1, 1, None, "desc", NoFilter, None)

Orders == {"asc", "desc"}

EthFilterSets ==
  { a @@ b @@ c :
      a \in {NoFilter, "block_number" :> WithOp("gt", 1), "block_number" :> Range(1, 2)},
      b \in {NoFilter, "content_sha" :> Txt(<<"a", "*">>), "content_sha" :> Txt(<<"a", "b">>)},
      c \in {NoFilter, "collection_id" :> Txt(<<"t", "r", "u", "e">>)} }

EthWheres ==
  { None,
    Some(<<WhereEntry("block_number", "gt", <<"1">>)>>),
    Some(<<WhereEntry("content_sha", "eq", <<"a", "*">>)>>),
    Some(<<WhereEntry("block_number", "gte", <<"2">>),
           WhereEntry("content_sha", "like", <<"a", "*">>)>>) }

EthPageKeys == {None, Some(<<>>), Some(<<"1", "_", "1">>), Some(<<"2", "_", "0">>)}

ColFilterSets ==
  { a @@ b :
      a \in {NoFilter, "name" :> Txt(<<"a", "*">>)},
      b \in {NoFilter, "supply" :> WithOp("gte", 3)} }

ColWheres ==
  { None,
    Some(<<WhereEntry("name", "eq", <<"a", "*">>)>>),
    Some(<<WhereEntry("supply", "gt", <<"1">>),
           WhereEntry("name", "like", <<"a", "*">>)>>) }

ColPageKeys == {None, Some(<<"2">>)}

Requests(h) ==
  IF h = "col"
  THEN { Request(p, s, k, o, f, w) :
           p \in 1..MaxPage, s \in 1..MaxPageSize, k \in ColPageKeys, o \in Orders,
           f \in ColFilterSets, w \in ColWheres }
  ELSE { Request(p, s, k, o, f, w) :
           p \in 1..MaxPage, s \in 1..MaxPageSize, k \in EthPageKeys, o \in Orders,
           f \in EthFilterSets, w \in EthWheres }

Handlers == {"eth1", "eth2", "col"}

\* no single-resource request, no POST and no projection is under way
NoItem == [kind |-> "null", v |-> NULL, kids |-> <<>>]
NoPatterns == [include |-> None, exclude |-> None]
\* the locals of an invocation that has not begun
NoContext ==
  [pc |-> "idle", handler |-> "eth2", req |-> NoRequest, query |-> NoQuery, preTotal |-> 0,
   trips |-> 0, resp |-> NoResponse, visited |-> <<>>, hops |-> 0, fromFirst |-> FALSE]

NoOthers ==
  /\ parked = NoContext
  /\ params = None
  /\ body = None
  /\ item = NoItem
  /\ patterns = NoPatterns
  /\ projected = NoItem

----------------------------------------------------------------------------
(* The state machine                                                        *)

Init ==
  /\ db = [ethscriptions |-> EthFixture, collections |-> ColFixture]
  /\ pc = "idle"
  /\ handler = "eth2"
  /\ req = NoRequest
  /\ query = NoQuery
  /\ preTotal = 0
  /\ trips = 0
  /\ resp = NoResponse
  /\ visited = <<>>
  /\ hops = 0
  /\ fromFirst = FALSE
  /\ NoOthers

\* The handler h starts on request sq and runs to its first await: eth1
\* sends its count query, the others build and send the page query.
Start(h, sq) ==
  /\ handler' = h
  /\ req' = sq
  /\ trips' = 1
  /\ preTotal' = 0
  /\ resp' = NoResponse
  /\ IF h = "eth1"
     THEN pc' = "counting" /\ query' = CountQuery
     ELSE pc' = "querying" /\ query' = BuildQuery(h, sq)
  /\ db' = db

\* A request arrives.
Receive ==
  /\ pc = "idle"
  /\ \E h \in Handlers : \E sq \in Requests(h) :
       /\ Start(h, sq)
       /\ visited' = <<>>
       /\ hops' = 0
       /\ fromFirst' = (~IsCursor(sq) /\ sq.page = 1)
  /\ UNCHANGED others

\* eth1: the count query returns; const [{ total }] = ... throws on an empty
\* table, otherwise the handler builds and sends the page query.
CountReturns ==
  /\ pc = "counting"
  /\ LET rows == Execute(query, db) IN
       IF rows = <<>>
       THEN /\ pc' = "done"
            /\ resp' = Failure
            /\ UNCHANGED <<query, preTotal, trips>>
       ELSE /\ pc' = "querying"
            /\ preTotal' = rows[1].total
            /\ query' = BuildQuery(handler, req)
            /\ trips' = trips + 1
            /\ resp' = resp
  /\ UNCHANGED <<db, handler, req, visited, hops, fromFirst, others>>

\* The page query returns and the handler builds its response.
QueryReturns ==
  /\ pc = "querying"
  /\ LET results == Execute(query, db)
         total == TotalOf(handler, preTotal, results)
     IN /\ resp' = Response(handler, req, total, results)
        /\ visited' = visited \o [i \in 1..Len(results) |-> results[i].row.id.s]
  /\ pc' = "done"
  /\ UNCHANGED <<db, handler, req, query, preTotal, trips, hops, fromFirst, others>>

\* The client library refuses a parameter that is not a finite number.
QueryFails ==
  /\ pc = "querying"
  /\ HasBadParam(query)
  /\ resp' = Failure
  /\ pc' = "done"
  /\ UNCHANGED <<db, handler, req, query, preTotal, trips, visited, hops, fromFirst,
                  others>>

\* The client asks for the next page with the page_key of the response.
FollowPageKey ==
  /\ pc = "done"
  /\ resp.status = 200
  /\ resp.page_key # None
  /\ hops < MaxHops
  /\ Start(handler, [req EXCEPT !.page_key = Some(AsText(The(resp.page_key)))])
  /\ hops' = hops + 1
  /\ UNCHANGED <<visited, fromFirst, others>>

\* The response is emitted and the request discarded; the client walks no
\* further.
Discard ==
  /\ pc = "done"
  /\ pc' = "idle"
  /\ handler' = "eth2"
  /\ req' = NoRequest
  /\ query' = NoQuery
  /\ preTotal' = 0
  /\ trips' = 0
  /\ resp' = NoResponse
  /\ visited' = <<>>
  /\ hops' = 0
  /\ fromFirst' = FALSE
  /\ db' = db
  /\ params' = None
  /\ body' = None
  /\ item' = NoItem
  /\ patterns' = NoPatterns
  /\ projected' = NoItem
  /\ parked' = parked

Next ==
  Receive \/ CountReturns \/ QueryReturns \/ QueryFails \/ FollowPageKey \/ Discard

Spec == Init /\ [][Next]_vars

----------------------------------------------------------------------------
(* The arithmetic of pages over tables of many rows: the same handlers on    *)
(* generated tables, for requests without filters.                           *)

ExampleTotal == 97
ExamplePageSize == 20
MaxArithPage == 6

ArithTotals == 0..ExampleTotal
ArithPageSizes == (1..MaxPageSize) \cup {ExamplePageSize}

ArithRequests ==
  { Request(p, s, None, o, NoFilter, None) :
      p \in 1..MaxArithPage, s \in ArithPageSizes, o \in Orders }

InitArith ==
  /\ db \in { [ethscriptions |-> GenEth(n), collections |-> GenCol(n)] : n \in ArithTotals }
  /\ pc = "idle"
  /\ handler = "eth2"
  /\ req = NoRequest
  /\ query = NoQuery
  /\ preTotal = 0
  /\ trips = 0
  /\ resp = NoResponse
  /\ visited = <<>>
  /\ hops = 0
  /\ fromFirst = FALSE
  /\ NoOthers

\* A request for a page, without filters, arrives.
ReceivePage ==
  /\ pc = "idle"
  /\ \E h \in Handlers : \E sq \in ArithRequests :
       /\ Start(h, sq)
       /\ visited' = <<>>
       /\ hops' = 0
       /\ fromFirst' = (sq.page = 1)
  /\ UNCHANGED others

NextArith == ReceivePage \/ CountReturns \/ QueryReturns \/ Discard

SpecArith == InitArith /\ [][NextArith]_vars

----------------------------------------------------------------------------
(* Filters and lookups: list requests that carry one number filter with     *)
(* every operator and the collection_id filter with every kind of value,    *)
(* over the fixture and over empty tables, and the single-resource lookup   *)
(* GET /ethscriptions/:id.                                                  *)

MaxFilterValue == 5

FilterOps == {"gt", "lt", "gte", "lte", "eq"}

NumberSpecs ==
  {Plain(I(v)) : v \in 0..MaxFilterValue}
    \cup {WithOp(op, v) : op \in FilterOps, v \in 0..MaxFilterValue}
    \cup {Range(a, b) : a \in 0..MaxFilterValue, b \in 0..MaxFilterValue}

TrueStr == <<"t", "r", "u", "e">>
FalseStr == <<"f", "a", "l", "s", "e">>
NullStr == <<"n", "u", "l", "l">>

CollectionIdValues == {TrueStr, FalseStr, NullStr, <<>>, <<"c">>, <<"d">>, <<"c", "*">>}

\* the whole table fits in one page
FilterPageSize == Max(Len(EthFixture), Len(ColFixture))

FilterRequests(h) ==
  IF h = "col"
  THEN { Request(1, FilterPageSize, None, o, f, None) :
           o \in Orders, f \in {NoFilter} \cup {"supply" :> n : n \in NumberSpecs} }
  ELSE { Request(1, FilterPageSize, None, o, a @@ c, None) :
           o \in Orders,
           a \in {NoFilter} \cup {"block_number" :> n : n \in NumberSpecs},
           c \in {NoFilter} \cup {"collection_id" :> Txt(v) : v \in CollectionIdValues} }

EmptyDb == [ethscriptions |-> <<>>, collections |-> <<>>]

InitFilter ==
  /\ db \in {[ethscriptions |-> EthFixture, collections |-> ColFixture], EmptyDb}
  /\ pc = "idle"
  /\ handler = "eth2"
  /\ req = NoRequest
  /\ query = NoQuery
  /\ preTotal = 0
  /\ trips = 0
  /\ resp = NoResponse
  /\ visited = <<>>
  /\ hops = 0
  /\ fromFirst = FALSE
  /\ NoOthers

\* A list request with filters arrives.
ReceiveFilter ==
  /\ pc = "idle"
  /\ \E h \in Handlers : \E sq \in FilterRequests(h) :
       /\ Start(h, sq)
       /\ visited' = <<>>
       /\ hops' = 0
       /\ fromFirst' = TRUE
  /\ UNCHANGED others

\* segments.id of the lookups: an id, a number, and keys of no row
LookupIds == {<<"x", "1">>, <<"x", "4">>, <<"x", "9">>, <<"3">>, <<"9">>}

\* db.select().from(ethscriptions).where(or(eq(id, segments.id), eq(number, segments.id)))
LookupQuery(id) ==
  [table |-> "ethscriptions",
   joins |-> <<>>,
   where |-> Some(<<OrClause(T(id))>>),
   orderBy |-> <<>>,
   limit |-> None,
   offset |-> None]

\* the 404 of the single-resource handler
NotFound ==
  [Failure EXCEPT !.status = 404, !.message = "Ethscription not found",
                  !.issues = <<Issue("not_found", <<>>)>>]

\* { data: ethscription } of the single-resource handler
Found(row) == [Failure EXCEPT !.status = 200, !.mode = "single", !.data = <<row>>]

\* GET /ethscriptions/:id arrives and the handler sends its query.
ReceiveLookup ==
  /\ pc = "idle"
  /\ \E id \in LookupIds :
       /\ params' = Some(id)
       /\ query' = LookupQuery(id)
  /\ handler' = "one"
  /\ pc' = "looking"
  /\ trips' = 1
  /\ UNCHANGED <<db, req, preTotal, resp, visited, hops, fromFirst, body, item, patterns,
                 projected, parked>>

\* if (results.length === 0) return 404; const [ethscription] = results
LookupResponse(results) ==
  IF Len(results) = 0 THEN NotFound ELSE Found(results[1].row)

\* The lookup query returns.
LookupReturns ==
  /\ pc = "looking"
  /\ resp' = LookupResponse(Execute(query, db))
  /\ pc' = "done"
  /\ UNCHANGED <<db, handler, req, query, preTotal, trips, visited, hops, fromFirst, others>>

NextFilter ==
  ReceiveFilter \/ CountReturns \/ QueryReturns \/ ReceiveLookup \/ LookupReturns \/ Discard

SpecFilter == InitFilter /\ [][NextFilter]_vars

----------------------------------------------------------------------------
(* POST /collections: parse the body, validate it, insert it.               *)

MaxInserts == 2

\* A request body: json says whether req.json() can parse it, conforms
\* whether insertCollectionSchema.parse accepts it, row is the record it
\* describes.
Body(json, conforms, row) == [json |-> json, conforms |-> conforms, row |-> row]

Bodies ==
  { Body(j, c, ColRow(id, 5, 1, name, id)) :
      j \in BOOLEAN, c \in BOOLEAN, id \in {<<"a">>, <<"b">>, <<"c">>},
      name \in {<<"a">>, <<"b">>} }

\* a catch block that takes every error for a fatal one
CaughtFatal(error) ==
  [Failure EXCEPT !.status = 500, !.message = "Fatal server failure"]

\* the catch block of the handler
Caught(error) ==
  IF error = "ZodError"
  THEN [Failure EXCEPT !.status = 400, !.message = "Request body validation failed",
                       !.issues = <<Issue("invalid", <<>>)>>]
  ELSE [Failure EXCEPT !.status = 500, !.message = "Fatal server failure"]

\* NextResponse.json({ data: newCollection }, { status: 201 })
Created(row) == [Failure EXCEPT !.status = 201, !.mode = "single", !.data = <<row>>]

\* The body is read and validated; a valid body goes to the store.
ReceivePost ==
  /\ pc = "idle"
  /\ \E b \in Bodies :
       /\ body' = Some(b)
       /\ IF ~b.json
          THEN pc' = "done" /\ resp' = Caught("SyntaxError") /\ trips' = 0
          ELSE IF ~b.conforms
          THEN pc' = "done" /\ resp' = Caught("ZodError") /\ trips' = 0
          ELSE pc' = "inserting" /\ resp' = NoResponse /\ trips' = 1
  /\ handler' = "post"
  /\ UNCHANGED <<db, req, query, preTotal, visited, hops, fromFirst, params, item, patterns,
                 projected, parked>>

\* the table holds a row with the id of the row to insert
HasId(row) == \E i \in 1..Len(db.collections) : db.collections[i].id = row.id

\* The store inserts the row and returns it.
InsertReturns ==
  /\ pc = "inserting"
  /\ ~HasId(The(body).row)
  /\ Len(db.collections) < Len(ColFixture) + MaxInserts
  /\ db' = [db EXCEPT !.collections = Append(@, The(body).row)]
  /\ resp' = Created(The(body).row)
  /\ pc' = "done"
  /\ UNCHANGED <<handler, req, query, preTotal, trips, visited, hops, fromFirst, others>>

\* The store rejects the insert (a constraint, a fault of the connection).
InsertFails ==
  /\ pc = "inserting"
  /\ resp' = Caught("LibsqlError")
  /\ pc' = "done"
  /\ UNCHANGED <<db, handler, req, query, preTotal, trips, visited, hops, fromFirst, others>>

NextPost == ReceivePost \/ InsertReturns \/ InsertFails \/ Discard

SpecPost == Init /\ [][NextPost]_vars

----------------------------------------------------------------------------
(* The projection: processObject over a record and the include and exclude  *)
(* lists.  A value is a scalar, null, an array or an object; arrays and     *)
(* objects carry their entries in the order of Object.entries.              *)

MaxPatterns == 2

Scalar(v) == [kind |-> "scalar", v |-> v, kids |-> <<>>]
Entry(key, val) == [key |-> key, val |-> val]
Obj(entries) == [kind |-> "object", v |-> NULL, kids |-> entries]
\* Object.entries of an array: its elements under the keys "0", "1", ...
Arr(elems) ==
  [kind |-> "array", v |-> NULL,
   kids |-> [i \in 1..Len(elems) |-> Entry(NumToStr(i - 1), elems[i])]]

\* typeof value === 'object' && value !== null
IsObject(value) == value.kind \in {"object", "array"}

\* new RegExp('^' + pattern.replace(/\./g, '\\.').replace(/\*/g, '.*') + '$').test(path)
RECURSIVE GlobMatch(_, _)
GlobMatch(path, pattern) ==
  IF pattern = <<>> THEN path = <<>>
  ELSE IF pattern[1] = "*"
    THEN \E k \in 0..Len(path) : GlobMatch(SubSeq(path, k + 1, Len(path)), Tail(pattern))
  ELSE path # <<>> /\ path[1] = pattern[1] /\ GlobMatch(Tail(path), Tail(pattern))

\* an exclude list that knows no glob
IsExcludedExact(fullPath, exclude) ==
  \E i \in 1..Len(exclude) : fullPath = exclude[i]

\* exclude.some(...)
IsExcluded(fullPath, exclude) ==
  \E i \in 1..Len(exclude) :
     IF HasStar(exclude[i]) THEN GlobMatch(fullPath, exclude[i])
     ELSE fullPath = exclude[i] \/ exclude[i] = fullPath \o <<".", "*">>

\* include.some(...)
IsIncluded(fullPath, include) ==
  \E i \in 1..Len(include) :
     IF HasStar(include[i]) THEN GlobMatch(fullPath, include[i])
     ELSE fullPath = include[i]

\* a decision in which an exclude pattern has the last word
ShouldIncludeExcludeLast(fullPath, include, exclude) ==
  ~(exclude # None /\ IsExcluded(fullPath, The(exclude)))

\* a decision in which the include patterns select: only matched paths stay
ShouldIncludeSelecting(fullPath, include, exclude) ==
  IF include # None THEN IsIncluded(fullPath, The(include))
  ELSE ~(exclude # None /\ IsExcluded(fullPath, The(exclude)))

\* let shouldInclude = true; if (exclude) ...; if (include) ...
ShouldInclude(fullPath, include, exclude) ==
  LET afterExclude == IF exclude # None THEN ~IsExcluded(fullPath, The(exclude)) ELSE TRUE
  IN IF include # None /\ IsIncluded(fullPath, The(include)) THEN TRUE ELSE afterExclude

\* const fullPath = prefix ? `${prefix}.${key}` : key
FullPath(prefix, key) == IF prefix # <<>> THEN prefix \o <<".">> \o key ELSE key

RECURSIVE processObject(_, _, _, _)
RECURSIVE ProcessEntries(_, _, _, _)

\* Object.entries(obj).forEach(...): the entries kept, their values processed
ProcessEntries(entries, prefix, include, exclude) ==
  IF entries = <<>> THEN <<>>
  ELSE LET key == entries[1].key
           value == entries[1].val
           fullPath == FullPath(prefix, key)
           rest == ProcessEntries(Tail(entries), prefix, include, exclude)
       IN IF ShouldInclude(fullPath, include, exclude)
          THEN <<Entry(key, IF IsObject(value)
                            THEN processObject(value, fullPath, include, exclude)
                            ELSE value)>> \o rest
          ELSE rest

\* processObject(obj, prefix): the result is a plain object, {}
processObject(obj, prefix, include, exclude) ==
  IF ~IsObject(obj) THEN obj
  ELSE Obj(ProcessEntries(obj.kids, prefix, include, exclude))

\* if (include || exclude) item => processObject(item)
Projection(record, pats) ==
  IF pats.include # None \/ pats.exclude # None
  THEN processObject(record, <<>>, pats.include, pats.exclude)
  ELSE record

Key(s) == CASE s = "id" -> <<"i", "d">>
            [] s = "meta" -> <<"m", "e", "t", "a">>
            [] s = "name" -> <<"n", "a", "m", "e">>
            [] s = "more" -> <<"m", "o", "r", "e">>
            [] s = "links" -> <<"l", "i", "n", "k", "s">>
            [] s = "note" -> <<"n", "o", "t", "e">>

\* records: scalars, a null, nested objects, an array of scalars
Items ==
  { Obj(<< Entry(Key("id"), Scalar(I(1))),
           Entry(Key("meta"), Obj(<< Entry(Key("id"), Scalar(I(2))),
                                     Entry(Key("name"), Scalar(T(<<"a">>))),
                                     Entry(Key("more"), Obj(<< Entry(Key("id"), Scalar(I(3))) >>)) >>)),
           Entry(Key("note"), NoItem) >>),
    Obj(<< Entry(Key("id"), Scalar(I(1))),
           Entry(Key("links"), Arr(<< Scalar(T(<<"b">>)), Scalar(T(<<"a">>)) >>)),
           Entry(Key("meta"), Obj(<< Entry(Key("id"), Scalar(I(2))),
                                     Entry(Key("links"), Arr(<< Scalar(I(7)) >>)) >>)) >>),
    Obj(<< Entry(Key("name"), Scalar(T(<<"a">>))),
           Entry(Key("meta"), NoItem),
           Entry(Key("links"), Arr(<<>>)) >>) }

Dot == <<".">>
Star == <<"*">>

PatternList ==
  << Key("id"), Key("meta"), Key("meta") \o Dot \o Star, Key("meta") \o Dot \o Key("id"),
     Key("meta") \o Dot \o Key("more"), Star \o Key("id"), <<"m">> \o Star,
     Key("links"), Key("links") \o Dot \o Star, Key("meta") \o Dot \o Key("links") >>

\* the patterns of PatternList at the indices J, in the order of the list
RECURSIVE Pick(_, _)
Pick(J, n) ==
  IF n = 0 THEN <<>>
  ELSE IF n \in J THEN Append(Pick(J, n - 1), PatternList[n]) ELSE Pick(J, n - 1)

\* searchQuery.include?.split(',').filter(Boolean): undefined or a list
PatternLists ==
  {None} \cup { Some(Pick(J, Len(PatternList))) :
                  J \in { K \in SUBSET (1..Len(PatternList)) : Cardinality(K) <= MaxPatterns } }

InitProject ==
  /\ db = [ethscriptions |-> EthFixture, collections |-> ColFixture]
  /\ pc = "idle"
  /\ handler = "eth2"
  /\ req = NoRequest
  /\ query = NoQuery
  /\ preTotal = 0
  /\ trips = 0
  /\ resp = NoResponse
  /\ visited = <<>>
  /\ hops = 0
  /\ fromFirst = FALSE
  /\ parked = NoContext
  /\ params = None
  /\ body = None
  /\ item \in Items
  /\ patterns \in [include : PatternLists, exclude : PatternLists]
  /\ projected = NoItem

\* The record passes through the projection.
Project ==
  /\ pc = "idle"
  /\ item # NoItem
  /\ projected' = Projection(item, patterns)
  /\ pc' = "projected"
  /\ UNCHANGED <<db, handler, req, query, preTotal, trips, resp, visited, hops, fromFirst,
                 params, body, item, patterns, parked>>

\* The projected record is emitted.
Emit ==
  /\ pc = "projected"
  /\ pc' = "idle"
  /\ item' = NoItem
  /\ patterns' = NoPatterns
  /\ projected' = NoItem
  /\ UNCHANGED <<db, handler, req, query, preTotal, trips, resp, visited, hops, fromFirst,
                 params, body, parked>>

NextProject == Project \/ Emit

SpecProject == InitProject /\ [][NextProject]_vars

----------------------------------------------------------------------------
(* Validation in front of the list handlers: withValidation with the        *)
(* parameter schema of the route, as the Query Parser of the specification  *)
(* describes it: a malformed page_key and an unknown operator of the where  *)
(* form are refused before the handler runs.                                *)

\* a page_key that validation takes whatever it holds
ValidPageKeyAny(s) == TRUE

\* "{primary}_{secondary}" split on the first '_', both parsed as integers
ValidPageKey(s) ==
  \E k \in 1..Len(s) :
     /\ s[k] = "_"
     /\ \A j \in 1..(k - 1) : s[j] # "_"
     /\ k > 1 /\ AllDigits(SubSeq(s, 1, k - 1))
     /\ k < Len(s) /\ AllDigits(SubSeq(s, k + 1, Len(s)))

\* an operator check that knows every name
KnownOperatorAny(op) == TRUE

\* the operators of a FilterSpec
KnownOperator(op) == op \in {"eq", "gt", "lt", "gte", "lte", "like"}

\* the issues of the where form: one for each entry with an unknown operator
RECURSIVE WhereIssues(_)
WhereIssues(w) ==
  IF w = <<>> THEN <<>>
  ELSE (IF KnownOperator(w[1].op) THEN <<>>
        ELSE <<Issue("unknown_operator", <<"where", w[1].key, w[1].op>>)>>)
       \o WhereIssues(Tail(w))

\* the issues of a request, every offending field
Validate(h, sq) ==
  (IF h # "col" /\ IsCursor(sq) /\ ~ValidPageKey(The(sq.page_key))
   THEN <<Issue("malformed_cursor", <<"page_key">>)>> ELSE <<>>)
  \o (IF sq.where = None THEN <<>> ELSE WhereIssues(The(sq.where)))

\* the response to a request that fails validation
Invalid(issues) == [Failure EXCEPT !.status = 400, !.issues = issues]

RawPageKeys ==
  { None, Some(<<>>), Some(<<"1", "_", "1">>), Some(<<"2", "_", "0">>),
    Some(<<"a", "_", "1">>), Some(<<"1", "_", "a">>), Some(<<"1">>), Some(<<"1", "_">>),
    Some(<<"_", "1">>), Some(<<"1", "_", "2", "_", "3">>), Some(<<"1", "_", "_", "2">>) }

RawEthWheres ==
  { None,
    Some(<<WhereEntry("block_number", "gt", <<"1">>)>>),
    Some(<<WhereEntry("block_number", "ne", <<"1">>)>>),
    Some(<<WhereEntry("content_sha", "sql", <<"a">>)>>),
    Some(<<WhereEntry("block_number", "gte", <<"2">>),
           WhereEntry("content_sha", "notLike", <<"a", "*">>)>>) }

RawColWheres ==
  { None,
    Some(<<WhereEntry("supply", "gt", <<"1">>)>>),
    Some(<<WhereEntry("name", "ne", <<"a">>)>>),
    Some(<<WhereEntry("supply", "between", <<"1">>),
           WhereEntry("name", "like", <<"a", "*">>)>>) }

RawRequests(h) ==
  IF h = "col"
  THEN { Request(1, s, None, o, NoFilter, w) :
           s \in 1..MaxPageSize, o \in Orders, w \in RawColWheres }
  ELSE { Request(1, s, k, o, NoFilter, w) :
           s \in 1..MaxPageSize, k \in RawPageKeys, o \in Orders, w \in RawEthWheres }

\* A request arrives at withValidation: it is refused, or handed to the
\* handler as its searchQuery.
ReceiveRaw ==
  /\ pc = "idle"
  /\ \E h \in Handlers : \E sq \in RawRequests(h) :
       LET issues == Validate(h, sq) IN
       /\ IF issues # <<>>
          THEN /\ handler' = h
               /\ req' = sq
               /\ resp' = Invalid(issues)
               /\ pc' = "done"
               /\ UNCHANGED <<db, query, preTotal, trips>>
          ELSE Start(h, sq)
       /\ visited' = <<>>
       /\ hops' = 0
       /\ fromFirst' = (~IsCursor(sq) /\ sq.page = 1)
  /\ UNCHANGED others

NextRaw == ReceiveRaw \/ CountReturns \/ QueryReturns \/ Discard

SpecRaw == Init /\ [][NextRaw]_vars

----------------------------------------------------------------------------
(* Expansions: list requests of the ethscriptions handlers with ?expand=     *)
(* over a store that holds the related tables.                              *)

ExpandFilterSets ==
  { NoFilter, "block_number" :> WithOp("gt", 1),
    "collection_id" :> Txt(<<"t", "r", "u", "e">>) }

ExpandRequests ==
  { Expanding(Request(p, s, None, o, f, None), e) :
      p \in 1..MaxPage, s \in 1..MaxPageSize, o \in Orders, f \in ExpandFilterSets,
      e \in SUBSET { Relations[i] : i \in 1..Len(Relations) } }

InitExpand ==
  /\ db = [ethscriptions |-> EthFixture, collections |-> ColFixture,
           transactions |-> TxFixture, transfers |-> TransferFixture,
           votes |-> VoteFixture]
  /\ pc = "idle"
  /\ handler = "eth2"
  /\ req = NoRequest
  /\ query = NoQuery
  /\ preTotal = 0
  /\ trips = 0
  /\ resp = NoResponse
  /\ visited = <<>>
  /\ hops = 0
  /\ fromFirst = FALSE
  /\ NoOthers

\* A list request with expansions arrives.
ReceiveExpand ==
  /\ pc = "idle"
  /\ \E h \in {"eth1", "eth2"} : \E sq \in ExpandRequests :
       /\ Start(h, sq)
       /\ visited' = <<>>
       /\ hops' = 0
       /\ fromFirst' = (sq.page = 1)
  /\ UNCHANGED others

NextExpand == ReceiveExpand \/ CountReturns \/ QueryReturns \/ Discard

SpecExpand == InitExpand /\ [][NextExpand]_vars

----------------------------------------------------------------------------
(* Two invocations in flight                                                *)
(* The runtime runs one invocation at a time and changes to another where   *)
(* the running one awaits. The variables pc .. fromFirst are the locals of  *)
(* the invocation that runs, parked holds the locals of the one that waits. *)

PairPages == 1..2

PairRequests(h) ==
  IF h = "col"
  THEN { Request(p, MaxPageSize, k, o, f, None) :
           p \in PairPages, k \in ColPageKeys, o \in Orders,
           f \in {NoFilter, "supply" :> WithOp("gte", 3)} }
  ELSE { Expanding(Request(p, MaxPageSize, k, o, f, None), e) :
           p \in PairPages, k \in {None, Some(<<"1", "_", "1">>)}, o \in Orders,
           f \in {NoFilter, "block_number" :> WithOp("gt", 1)},
           e \in {{}, {"votes"}} }

\* a query builder kept at module level: the invocation that resumes finds
\* the query that was built last
ResumedSharingQuery(c) == [c EXCEPT !.query = query]

\* the invocation that resumes after its await finds its own locals
Resumed(c) == c

\* the locals of the invocation that runs (const offset, baseQuery, query,
\* conditions, results, total ... are declared inside the handler)
Context ==
  [pc |-> pc, handler |-> handler, req |-> req, query |-> query, preTotal |-> preTotal,
   trips |-> trips, resp |-> resp, visited |-> visited, hops |-> hops,
   fromFirst |-> fromFirst]

\* A list request arrives while another invocation may be waiting.
ReceivePair ==
  /\ pc = "idle"
  /\ \E h \in Handlers : \E sq \in PairRequests(h) :
       /\ Start(h, sq)
       /\ visited' = <<>>
       /\ hops' = 0
       /\ fromFirst' = (~IsCursor(sq) /\ sq.page = 1)
  /\ UNCHANGED others

\* The running invocation waits at its await (or has returned) and the other
\* one goes on.
Switch ==
  /\ ~(pc = "idle" /\ parked.pc = "idle")
  /\ parked' = Context
  /\ pc' = Resumed(parked).pc
  /\ handler' = Resumed(parked).handler
  /\ req' = Resumed(parked).req
  /\ query' = Resumed(parked).query
  /\ preTotal' = Resumed(parked).preTotal
  /\ trips' = Resumed(parked).trips
  /\ resp' = Resumed(parked).resp
  /\ visited' = Resumed(parked).visited
  /\ hops' = Resumed(parked).hops
  /\ fromFirst' = Resumed(parked).fromFirst
  /\ UNCHANGED <<db, params, body, item, patterns, projected>>

NextPair == ReceivePair \/ Switch \/ CountReturns \/ QueryReturns \/ Discard

SpecPair == InitExpand /\ [][NextPair]_vars

----------------------------------------------------------------------------
(* What the claims speak of                                                 *)

EthHandler == handler \in {"eth1", "eth2"}

\* the page query has been built
QueryBuilt == pc \in {"querying", "done"} /\ query.limit # None

\* the handler has answered the request with a page
Answered == pc = "done" /\ resp.status = 200

\* the clauses of the top-level filters of the request
TopClauses(h, sq) == IF h = "col" THEN ColFilters(sq) ELSE EthConditions(sq)

\* the clauses of the where form of the request
NestedClauses(sq) == IF sq.where = None THEN <<>> ELSE WhereConds(The(sq.where))

\* the fields the where form names
WhereFields(sq) ==
  IF sq.where = None THEN {} ELSE { The(sq.where)[i].key : i \in 1..Len(The(sq.where)) }

\* the rows of the table that satisfy every filter of the request
MatchingRows(h, sq) ==
  Matching(And(TopClauses(h, sq) \o NestedClauses(sq)),
           db[IF h = "col" THEN "collections" ELSE "ethscriptions"])

InWhere(c) == query.where # None /\ \E i \in 1..Len(The(query.where)) : The(query.where)[i] = c

\* the decoded page_key of an ethscriptions request
CursorBlock(sq) == Number(Split(The(sq.page_key))[1])
CursorIndex(sq) ==
  IF Len(Split(The(sq.page_key))) >= 2 THEN Number(Split(The(sq.page_key))[2]) ELSE NaN

\* row lies strictly beyond the decoded page_key in the order of the request
Beyond(row, sq) ==
  LET b == CursorBlock(sq)
      t == CursorIndex(sq)
  IN /\ ~b.nan /\ ~t.nan
     /\ IF sq.order = "asc"
        THEN row.block_number.n > b.v
               \/ (row.block_number.n = b.v /\ row.transaction_index.n > t.v)
        ELSE row.block_number.n < b.v
               \/ (row.block_number.n = b.v /\ row.transaction_index.n < t.v)

\* row a comes strictly before row b in ascending (block_number, transaction_index)
KeyLess(a, b) ==
  a.block_number.n < b.block_number.n
    \/ (a.block_number.n = b.block_number.n /\ a.transaction_index.n < b.transaction_index.n)

EthRowOf(id) ==
  db.ethscriptions[CHOOSE i \in 1..Len(db.ethscriptions) : db.ethscriptions[i].id.s = id]

----------------------------------------------------------------------------
(* Claims                                                                   *)

\* C1: in the ethscriptions list handler, with ascending order, a walk that
\* starts at the first page and follows the returned page_key delivers rows
\* in strictly increasing (block_number, transaction_index) order (hence no
\* row twice), delivers only rows that match the filters, needs no more
\* follow-ups than there are matching rows, and has delivered every matching
\* row when a response says has_more = false.
C1_CursorWalk ==
  (Answered /\ EthHandler /\ fromFirst /\ req.order = "asc") =>
    /\ \A i \in 1..Len(visited) : \A j \in 1..Len(visited) :
         i < j => KeyLess(EthRowOf(visited[i]), EthRowOf(visited[j]))
    /\ \A i \in 1..Len(visited) :
         \E k \in 1..Len(MatchingRows(handler, req)) :
            MatchingRows(handler, req)[k].id.s = visited[i]
    /\ hops <= Len(MatchingRows(handler, req))
    /\ ~resp.has_more =>
         \A k \in 1..Len(MatchingRows(handler, req)) :
            \E i \in 1..Len(visited) : visited[i] = MatchingRows(handler, req)[k].id.s

\* C2: in cursor mode of the ethscriptions list handler every returned row
\* lies strictly beyond the decoded page_key in the order of the request and
\* satisfies every filter of the request, nested where filters included.
C2_CursorStrict ==
  (Answered /\ EthHandler /\ IsCursor(req)) =>
    \A i \in 1..Len(resp.data) :
      /\ Beyond(resp.data[i], req)
      /\ HoldsAll(TopClauses(handler, req) \o NestedClauses(req), resp.data[i])

\* C3: pagination.total of every list response is the number of rows that
\* match the filters of the request, whatever the page, page_size, page_key.
C3_TotalIsMatchCount ==
  Answered => resp.total = Len(MatchingRows(handler, req))

\* C4: in offset mode the query skips (page - 1) * page_size rows, pages is
\* ceil(total / page_size), prev is page - 1 when page > 1 and null
\* otherwise, next is page + 1 when total > offset + page_size and null
\* otherwise, and has_more is true exactly when next is not null.
C4_OffsetArithmetic ==
  (Answered /\ resp.mode = "offset") =>
    LET total == resp.total
        size == req.page_size
        offset == (req.page - 1) * size
    IN /\ query.offset = Some(offset)
       /\ resp.pages # None
       /\ The(resp.pages) * size >= total
       /\ (The(resp.pages) - 1) * size < total \/ (total = 0 /\ The(resp.pages) = 0)
       /\ resp.prev = (IF req.page > 1 THEN Some(req.page - 1) ELSE None)
       /\ resp.next = (IF total > offset + size THEN Some(req.page + 1) ELSE None)
       /\ resp.has_more <=> resp.next # None

\* C4 witness: the last page of total 97 with page_size 20 has been answered
\* with pages 5 and no next page.
C4_Witness ==
  /\ Answered /\ resp.mode = "offset"
  /\ resp.total = 97 /\ req.page_size = 20 /\ req.page = 5
  /\ resp.pages = Some(5) /\ resp.next = None /\ resp.prev = Some(4)

\* C5: in cursor mode of the ethscriptions list handler a non-null page_key
\* is '{block_number}_{transaction_index}' of the last returned row, and
\* some row that matches the request lies beyond the returned page.
C5_NextCursor ==
  (Answered /\ EthHandler /\ IsCursor(req) /\ resp.page_key # None) =>
    /\ resp.data # <<>>
    /\ LET last == resp.data[Len(resp.data)] IN
         /\ The(resp.page_key).s =
              NumToStr(last.block_number.n) \o <<"_">> \o NumToStr(last.transaction_index.n)
         /\ \E k \in 1..Len(MatchingRows(handler, req)) :
              LET r == MatchingRows(handler, req)[k] IN
                /\ Beyond(r, req)
                /\ IF req.order = "asc" THEN KeyLess(last, r) ELSE KeyLess(r, last)

\* a clause that bounds the page by a key
IsKeyset(c) == c.k \in {"tuple_gt", "tuple_lt"} \/ c.col = "created_at"

\* C6: a request with a non-empty page_key is served in cursor mode whatever
\* its page: the query has no OFFSET, the offset of the arithmetic is 0 (a
\* next page_key is given exactly when total > page_size) and the metadata
\* has the cursor shape; a request with no or an empty page_key is served in
\* offset mode: OFFSET (page - 1) * page_size, no keyset clause, and the
\* metadata has the page shape.
C6_OneMode ==
  QueryBuilt =>
    IF req.page_key # None /\ The(req.page_key) # <<>>
    THEN /\ query.offset = None
         /\ Answered =>
              /\ resp.mode = "cursor"
              /\ resp.pages = None /\ resp.page = None
              /\ resp.prev = None /\ resp.next = None
              /\ (resp.page_key # None) <=> (resp.total > req.page_size)
    ELSE /\ query.offset = Some((req.page - 1) * req.page_size)
         /\ query.where # None =>
              \A i \in 1..Len(The(query.where)) : ~IsKeyset(The(query.where)[i])
         /\ Answered =>
              /\ resp.mode = "offset"
              /\ resp.page = Some(req.page) /\ resp.pages # None

\* C6 witness: a request with a page_key and page 3 has been answered in
\* cursor mode with rows.
C6_Witness ==
  /\ Answered /\ req.page_key # None /\ The(req.page_key) # <<>>
  /\ req.page = 3 /\ resp.mode = "cursor" /\ resp.data # <<>>

\* C7: a list request makes exactly one round trip to the store before its
\* response is built.
C7_OneRoundTrip ==
  Answered => trips = 1

\* the text fields of the handler that have a top-level filter in the request
TextFieldsOf(h, sq) ==
  LET fields == IF h = "col" THEN ColTextFields ELSE EthTextFields
  IN { fields[i] : i \in { j \in 1..Len(fields) : fields[j] \in DOMAIN sq.filters } }

\* C8: in the ethscriptions list handler a filter value that has a '*'
\* compiles to a like clause with every '*' replaced by '%', and to no
\* comparison clause: for a top-level text filter, and for a nested
\* where[field][op] filter whatever its op.
C8_StarIsLike ==
  (QueryBuilt /\ EthHandler) =>
    /\ req.where = None =>
         \A f \in TextFieldsOf(handler, req) :
           LET v == req.filters[f].value.s IN
             HasStar(v) =>
               /\ InWhere(Clause("like", f, T(StarToPercent(v))))
               /\ \A op \in CmpOps : ~InWhere(Clause(op, f, T(StarToPercent(v))))
    /\ req.where # None =>
         \A i \in 1..Len(The(req.where)) :
           LET e == The(req.where)[i] IN
             HasStar(e.value) =>
               /\ InWhere(Clause("like", e.key, T(StarToPercent(e.value))))
               /\ \A op \in CmpOps : ~InWhere(Clause(op, e.key, T(StarToPercent(e.value))))

\* C9: with top-level and where filters in one request, the predicate keeps
\* the top-level clause of every field that the where form does not name.
C9_WhereReplacesOwnFields ==
  (QueryBuilt /\ req.where # None) =>
    \A i \in 1..Len(TopClauses(handler, req)) :
      TopClauses(handler, req)[i].col \notin WhereFields(req)
        => InWhere(TopClauses(handler, req)[i])

\* C10: every clause of the where form, and every top-level clause of a
\* field the where form does not name, is part of the predicate, and every
\* returned row satisfies all of them.
C10_AllClausesAnded ==
  QueryBuilt =>
    LET cs == NestedClauses(req) \o
                SelectSeq(TopClauses(handler, req), LAMBDA c : c.col \notin WhereFields(req))
    IN /\ \A i \in 1..Len(cs) : InWhere(cs[i])
       /\ Answered => \A j \in 1..Len(resp.data) : HoldsAll(cs, resp.data[j])


----------------------------------------------------------------------------
(* Filters                                                                  *)

\* the number field the filter requests of a handler carry
NumberField == IF handler = "col" THEN "supply" ELSE "block_number"

\* the clauses of the built query on one column
ClausesOn(col) ==
  IF query.where = None THEN <<>>
  ELSE LET OnCol(c) == c.col = col IN SelectSeq(The(query.where), OnCol)

\* the table the handler reads
TableOf(h) == db[IF h = "col" THEN "collections" ELSE "ethscriptions"]

\* the ids of the rows of the response
DataIds == { resp.data[i].id : i \in 1..Len(resp.data) }

\* the integer n passes the number filter f
Passes(f, n) ==
  IF ~f.colon THEN n = f.value.n
  ELSE CASE f.op = "gt" -> n > f.value.n
         [] f.op = "lt" -> n < f.value.n
         [] f.op = "gte" -> n >= f.value.n
         [] f.op = "lte" -> n <= f.value.n
         [] f.op = "range" -> f.min.n <= n /\ n <= f.max.n
         [] OTHER -> n = f.value.n

\* C11: a number filter field=range:min,max compiles to exactly the two
\* clauses field >= min and field <= max and returns the rows with
\* min <= field <= max, bounds included; gt and lt compile to one strict
\* clause, gte and lte to one inclusive clause, and a value without an
\* operator to equality; the rows returned are the rows that pass.
C11_NumberOperators ==
  (QueryBuilt /\ req.where = None /\ NumberField \in DOMAIN req.filters) =>
    LET f == req.filters[NumberField]
        on == ClausesOn(NumberField)
    IN /\ (f.colon /\ f.op = "range") =>
            on = <<Clause("gte", NumberField, f.min), Clause("lte", NumberField, f.max)>>
       /\ (f.colon /\ f.op \in {"gt", "lt", "gte", "lte"}) =>
            on = <<Clause(f.op, NumberField, f.value)>>
       /\ ~f.colon => on = <<Clause("eq", NumberField, f.value)>>
       /\ (Answered /\ DOMAIN req.filters = {NumberField}) =>
            DataIds = { TableOf(handler)[i].id :
                          i \in { j \in 1..Len(TableOf(handler)) :
                                    Passes(f, TableOf(handler)[j][NumberField].n) } }

\* a range whose two bounds are both the value of a returned row
C11_Witness ==
  /\ Answered /\ req.where = None /\ DOMAIN req.filters = {NumberField}
  /\ LET f == req.filters[NumberField] IN
       /\ f.colon /\ f.op = "range" /\ f.min.n < f.max.n
       /\ \E i, j \in 1..Len(resp.data) :
            /\ resp.data[i][NumberField] = f.min
            /\ resp.data[j][NumberField] = f.max

\* the rows the collection_id value v selects
CollectionIdRows(v) ==
  LET t == db.ethscriptions
      Sel(r) == IF v = TrueStr THEN r.collection_id # NULL
                ELSE IF v \in {FalseStr, NullStr} THEN r.collection_id = NULL
                ELSE IF HasStar(v)
                  THEN r.collection_id # NULL
                         /\ LikeMatch(r.collection_id.s, StarToPercent(v))
                ELSE r.collection_id = T(v)
  IN { t[i].id : i \in { j \in 1..Len(t) : Sel(t[j]) } }

\* C12: collection_id='true' selects the rows whose collection_id IS NOT
\* NULL, 'false' and 'null' the rows whose collection_id IS NULL, and any
\* other non-empty value compiles to equality on the literal, or to like
\* when the literal has a '*'.
C12_CollectionIdTriState ==
  (EthHandler /\ QueryBuilt /\ req.where = None /\ "collection_id" \in DOMAIN req.filters
     /\ req.filters["collection_id"].value.s # <<>>) =>
    LET v == req.filters["collection_id"].value.s
        on == ClausesOn("collection_id")
    IN /\ v = TrueStr => on = <<Clause("notnull", "collection_id", NULL)>>
       /\ v \in {FalseStr, NullStr} => on = <<Clause("isnull", "collection_id", NULL)>>
       /\ (v \notin {TrueStr, FalseStr, NullStr} /\ ~HasStar(v)) =>
            on = <<Clause("eq", "collection_id", T(v))>>
       /\ (v \notin {TrueStr, FalseStr, NullStr} /\ HasStar(v)) =>
            on = <<Clause("like", "collection_id", T(StarToPercent(v)))>>
       /\ (Answered /\ DOMAIN req.filters = {"collection_id"}) =>
            DataIds = CollectionIdRows(v)

\* collection_id=null has returned the rows without a collection
C12_Witness ==
  /\ EthHandler /\ Answered /\ DOMAIN req.filters = {"collection_id"}
  /\ req.filters["collection_id"].value.s = NullStr
  /\ Len(resp.data) > 0
  /\ \A i \in 1..Len(resp.data) : resp.data[i].collection_id = NULL


----------------------------------------------------------------------------
(* Not found and empty                                                      *)

\* no row of the table has the key of the lookup as its id or its number
NoRowHas(id) ==
  \A i \in 1..Len(db.ethscriptions) :
     db.ethscriptions[i].id.s # id /\ NumToStr(db.ethscriptions[i].number.n) # id

\* C16: a single-resource lookup that matches no row answers with status 404
\* and one issue of code not_found, without data; a list request that
\* matches no row answers with status 200 and the empty list.
C16_NotFoundVsEmpty ==
  /\ (pc = "done" /\ handler = "one" /\ NoRowHas(The(params))) =>
        (resp.status = 404 /\ Len(resp.issues) = 1 /\ resp.issues[1].code = "not_found"
           /\ resp.data = <<>>)
  /\ (pc = "done" /\ handler \in Handlers /\ MatchingRows(handler, req) = <<>>) =>
        (resp.status = 200 /\ resp.data = <<>>)


----------------------------------------------------------------------------
(* POST                                                                     *)

\* C17: a body that fails the schema is answered with status 400 and the
\* message 'Request body validation failed' before any store access and
\* nothing is inserted; a rejected insert is answered with status 500 and
\* 'Fatal server failure'; status 201 is answered only by the step in which
\* the store inserted the row.
C17_PostOutcomes ==
  [][ /\ (pc = "idle" /\ handler' = "post" /\ body' # None /\ The(body').json
            /\ ~The(body').conforms) =>
           /\ pc' = "done" /\ trips' = 0 /\ db' = db
           /\ resp'.status = 400 /\ resp'.message = "Request body validation failed"
      /\ (pc = "inserting" /\ pc' = "done" /\ db' = db) =>
           (resp'.status = 500 /\ resp'.message = "Fatal server failure")
      /\ (handler' = "post" /\ resp'.status = 201 /\ resp.status # 201) =>
           /\ pc = "inserting" /\ trips = 1 /\ The(body).conforms
           /\ db'.collections = Append(db.collections, The(body).row)
           /\ resp'.data = <<The(body).row>>
      /\ (handler' = "post" /\ db' # db) => resp'.status = 201 ]_vars

\* a second insert of the same id has been rejected after a first one succeeded
C17_Witness ==
  /\ handler = "post" /\ pc = "done" /\ resp.status = 500 /\ trips = 1
  /\ Len(db.collections) > Len(ColFixture)
  /\ HasId(The(body).row)


----------------------------------------------------------------------------
(* Projection                                                               *)

\* the fields of a record at every depth: path, path of the parent, value
RECURSIVE Fields(_, _)
Fields(node, prefix) ==
  IF ~IsObject(node) THEN {}
  ELSE UNION { {[path |-> FullPath(prefix, node.kids[i].key), parent |-> prefix,
                 val |-> node.kids[i].val]}
                 \cup Fields(node.kids[i].val, FullPath(prefix, node.kids[i].key)) :
               i \in 1..Len(node.kids) }

PathsOf(node) == { f.path : f \in Fields(node, <<>>) }

\* some include pattern equals or glob-matches the path
IncludeNames(path) == patterns.include # None /\ IsIncluded(path, The(patterns.include))
ExcludeNames(path) == patterns.exclude # None /\ IsExcluded(path, The(patterns.exclude))

\* C13: include overrides exclude at the matched path: every field of the
\* input record whose path some include pattern equals or glob-matches is
\* present in the projected record, whatever the exclude patterns are.
C13_IncludeOverrides ==
  pc = "projected" =>
    \A f \in Fields(item, <<>>) : IncludeNames(f.path) => f.path \in PathsOf(projected)

\* C13 amended: include overrides exclude at the matched path of a field
\* whose parent was kept: every field of the input record whose path some
\* include pattern equals or glob-matches is present in the projected record
\* when it is a top-level field or its parent is present in the projected
\* record, whatever the exclude patterns are.
C13_IncludeOverridesUnderKeptParent ==
  pc = "projected" =>
    \A f \in Fields(item, <<>>) :
       (IncludeNames(f.path) /\ (f.parent = <<>> \/ f.parent \in PathsOf(projected)))
          => f.path \in PathsOf(projected)

\* a nested field that an exclude pattern and an include pattern both match
\* has been kept
C13_Witness ==
  /\ pc = "projected"
  /\ \E f \in Fields(item, <<>>) :
       /\ f.parent # <<>> /\ IncludeNames(f.path) /\ ExcludeNames(f.path)
       /\ f.path \in PathsOf(projected)

\* the keys of the entries of an object, in order
KeysOf(node) == [i \in 1..Len(node.kids) |-> node.kids[i].key]

\* the value of the top-level field key of a record
RECURSIVE Lookup(_, _)
Lookup(entries, key) ==
  IF entries = <<>> THEN None
  ELSE IF entries[1].key = key THEN Some(entries[1].val) ELSE Lookup(Tail(entries), key)

\* C14: for an object-valued field P of a record, exclude ['P.*'] together
\* with include patterns keeps P with exactly the children of P that an
\* include pattern matches, and drops every other child of P.
C14_ChildrenOfExcludedParent ==
  pc = "projected" =>
    \A i \in 1..Len(item.kids) :
       LET P == item.kids[i].key
           before == item.kids[i].val
       IN (before.kind = "object" /\ patterns.exclude = Some(<<P \o <<".", "*">>>>)) =>
            /\ Lookup(projected.kids, P) # None
            /\ LET Named(e) == IncludeNames(FullPath(P, e.key)) IN
                 KeysOf(The(Lookup(projected.kids, P))) = KeysOf(Obj(SelectSeq(before.kids, Named)))

\* exclude meta.*, include meta.id over a record with meta.id and other
\* children of meta: only id is left under meta
C14_Witness ==
  /\ pc = "projected"
  /\ patterns.exclude = Some(<<Key("meta") \o <<".", "*">>>>)
  /\ patterns.include = Some(<<Key("meta") \o <<".">> \o Key("id")>>)
  /\ Lookup(item.kids, Key("meta")) # None
  /\ Len(The(Lookup(item.kids, Key("meta"))).kids) > 1
  /\ KeysOf(The(Lookup(projected.kids, Key("meta")))) = <<Key("id")>>

\* a scalar, a null, or an array of them
IsPlain(value) ==
  \/ value.kind \in {"scalar", "null"}
  \/ value.kind = "array" /\ \A i \in 1..Len(value.kids) :
                                 value.kids[i].val.kind \in {"scalar", "null"}

\* C15: a kept field whose value is a scalar or an array of scalars appears
\* in the projected record with its value unchanged: an array stays an array
\* of the same elements in the same order.
C15_PlainValuesUnchanged ==
  pc = "projected" =>
    \A f \in Fields(item, <<>>) : \A g \in Fields(projected, <<>>) :
       (IsPlain(f.val) /\ g.path = f.path) => g.val = f.val


----------------------------------------------------------------------------
(* Validation                                                               *)

\* the number of '_' in a text
RECURSIVE Underscores(_)
Underscores(s) ==
  IF s = <<>> THEN 0 ELSE (IF s[1] = "_" THEN 1 ELSE 0) + Underscores(Tail(s))

\* two runs of digits around one '_'
WellFormedKey(s) ==
  /\ Underscores(s) = 1
  /\ s[1] # "_" /\ s[Len(s)] # "_"
  /\ \A i \in 1..Len(s) : s[i] = "_" \/ IsDigit(s[i])

\* the request was refused before the handler ran
Refused == pc = "done" /\ resp.status = 400 /\ trips = 0 /\ query = NoQuery

\* C18: a malformed page_key (a component that is not an integer, a missing
\* second component, more than one '_') makes the request fail with a
\* validation error before any query is sent, and no keyset predicate is
\* ever built from a component that is not a number.
C18_MalformedCursorRefused ==
  /\ (pc # "idle" /\ EthHandler /\ IsCursor(req) /\ ~WellFormedKey(The(req.page_key))) =>
        (Refused /\ \E i \in 1..Len(resp.issues) : resp.issues[i].path = <<"page_key">>)
  /\ (EthHandler /\ query.where # None) =>
        \A i \in 1..Len(The(query.where)) :
           IsKeyset(The(query.where)[i]) =>
              (The(query.where)[i].val.t = "int" /\ The(query.where)[i].val2.t = "int")

\* a page_key with a component that is not a number has been refused
C18_Witness ==
  /\ EthHandler /\ Refused
  /\ req.page_key = Some(<<"1", "_", "a">>)

\* the entries of the where form of the request whose operator is unknown
UnknownEntries ==
  IF req.where = None THEN {}
  ELSE { i \in 1..Len(The(req.where)) :
           The(req.where)[i].op \notin {"eq", "gt", "lt", "gte", "lte", "like"} }

\* C19: an operator outside {eq, gt, lt, gte, lte, like} in where[field][op]
\* makes the request fail with a validation error that names the field and
\* the operator; no clause of a query is built from such an operator.
C19_UnknownOperatorRefused ==
  /\ (pc # "idle" /\ handler \in Handlers /\ UnknownEntries # {}) =>
        /\ Refused
        /\ \A i \in UnknownEntries : \E j \in 1..Len(resp.issues) :
              resp.issues[j].path = <<"where", The(req.where)[i].key, The(req.where)[i].op>>
  /\ (handler \in Handlers /\ query.where # None) =>
        \A i \in 1..Len(The(query.where)) :
           The(query.where)[i].k \in
             {"eq", "gt", "lt", "gte", "lte", "like", "isnull", "notnull", "tuple_gt", "tuple_lt"}

\* a where form with a known and an unknown operator has been refused
C19_Witness ==
  /\ handler \in Handlers /\ Refused
  /\ UnknownEntries # {} /\ Len(The(req.where)) > Cardinality(UnknownEntries)


----------------------------------------------------------------------------
(* Expansions                                                               *)

\* what the store returns for the request without its expansions
PlainResults == Execute(BuildQuery(handler, Expanding(req, {})), db)

\* the ids of the primary rows of a result, in order
IdsOf(rows) == [i \in 1..Len(rows) |-> rows[i].id]

\* C20: a request with expansions has one join and, in every item, one named
\* sub-object for each relation it asks for, and the expansions do not alter
\* the primary rows of the answer: the items are the ethscriptions the same
\* request without expansions returns, and total is the same count.
C20_ExpansionsKeepRows ==
  (EthHandler /\ Answered) =>
    /\ Len(query.joins) = Cardinality(req.expand)
    /\ \A r \in req.expand : \E i \in 1..Len(query.joins) : query.joins[i] = r
    /\ \A i \in 1..Len(resp.data) :
         DOMAIN resp.data[i] = DOMAIN EthFixture[1] \cup req.expand
    /\ resp.total = TotalOf(handler, preTotal, PlainResults)
    /\ IdsOf(resp.data) = IdsOf([i \in 1..Len(PlainResults) |-> PlainResults[i].row])


----------------------------------------------------------------------------
(* Sort key and cursor key                                                  *)

\* the columns the query is sorted on, in order
SortKey == [i \in 1..Len(query.orderBy) |-> query.orderBy[i].col]

\* the columns a keyset clause compares, in order
CursorKey(c) ==
  IF c.k \in {"tuple_gt", "tuple_lt"} THEN <<"block_number", "transaction_index">>
  ELSE <<c.col>>

\* the direction a keyset clause walks in
CursorDir(c) == IF c.k \in {"tuple_gt", "gt"} THEN "asc" ELSE "desc"

\* C21: in every list handler the query is sorted on the composite key the
\* cursor predicate compares, a primary ordinal and a secondary ordinal that
\* breaks its ties, and the order of the request is the direction of every
\* sort field and of the cursor comparison.
C21_SortKeyIsCursorKey ==
  (QueryBuilt /\ handler \in Handlers) =>
    /\ Len(query.orderBy) = 2
    /\ \A i \in 1..Len(query.orderBy) : query.orderBy[i].dir = req.order
    /\ query.where # None =>
         \A i \in 1..Len(The(query.where)) :
            IsKeyset(The(query.where)[i]) =>
               (CursorKey(The(query.where)[i]) = SortKey
                  /\ CursorDir(The(query.where)[i]) = req.order)

\* C24: in every list response, of either pagination mode and of each of the
\* three list handlers, has_more is true exactly when page_key is not null.
C24_HasMoreIffPageKey ==
  (Answered /\ handler \in Handlers) =>
     (resp.has_more <=> resp.page_key # None)

\* the request names include patterns and no exclude pattern
IncludeOnly ==
  /\ patterns.include # None /\ The(patterns.include) # <<>>
  /\ patterns.exclude \in {None, Some(<<>>)}

\* C25: when a request gives include patterns and no exclude patterns the
\* projection removes nothing: every field path of the input record is
\* present in the projected record, whether or not an include pattern
\* matches it.
C25_IncludeAloneKeepsAll ==
  (pc = "projected" /\ IncludeOnly) => PathsOf(item) \subseteq PathsOf(projected)

\* include patterns alone, over a record with a field none of them matches:
\* the field is in the projected record
C25_Witness ==
  /\ pc = "projected" /\ IncludeOnly
  /\ \E f \in Fields(item, <<>>) : ~IncludeNames(f.path) /\ f.path \in PathsOf(projected)

\* the response of handler h to request sq when no other invocation is in
\* flight
Alone(h, sq) ==
  IF h = "eth1" /\ Execute(CountQuery, db) = <<>> THEN Failure
  ELSE The({ Response(h, sq, TotalOf(h, counted, results), results) :
               results \in {Execute(BuildQuery(h, sq), db)},
               counted \in {IF h = "eth1" THEN Execute(CountQuery, db)[1].total ELSE 0} })

\* the invocation that waits has the same request as the one that runs, and
\* both are answered
AnsweredTwice ==
  /\ pc = "done" /\ parked.pc = "done"
  /\ handler \in Handlers /\ parked.handler = handler /\ parked.req = req

C23_AsIfAlone ==
  /\ (pc = "done" /\ handler \in Handlers) => resp = Alone(handler, req)
  /\ (parked.pc = "done" /\ parked.handler \in Handlers) =>
        parked.resp = Alone(parked.handler, parked.req)

\* a request has been answered while a different request, of the handler
\* with two queries, waits for its page query
C23_Witness ==
  /\ pc = "done" /\ handler \in Handlers /\ resp.status = 200 /\ resp.data # <<>>
  /\ parked.pc = "querying" /\ parked.handler = "eth1" /\ parked.req # req

====
